---- MODULE Spec2Model ----
(***************************************************************************)
(* The three task scripts of ai-dial-content-generation as one state       *)
(* machine:                                                                *)
(*   task/image_to_text/task_dial_itt.py          (upload, then ask)       *)
(*   task/text_to_image/task_tti.py               (ask, then download)     *)
(*   task/image_to_text/openai/task_openai_itt.py (two inline-image asks)  *)
(* A run is one execution of start(), _put_image() or _save_images().      *)
(* Every remote call (get_completion, put_file, get_file) is two steps:    *)
(* the script issues it, then the environment answers or raises.  `log`    *)
(* is what a recording test double would see, in order.                    *)
(***************************************************************************)
EXTENDS Integers, Sequences, FiniteSets, TLC

\* ------------------------------------------------------------- bounds
MaxAtt == 2        \* longest attachment list a response / a caller supplies
MaxRuns == 2       \* executions per behaviour (module load, then a call)
MaxClock == 2      \* the wall clock takes the values 0..MaxClock (ticks)

\* ------------------------------------------------------------- values
\* Python's None.  Strings and None meet in optional string fields, so None
\* is a string no url, title or text of the model equals.
None == "<None>"

\* Python truthiness of an optional string: None and '' are falsy.
Truthy(v) == v # None /\ v # ""

\* dict.get(key): the value, or None when the key is absent.
DictGet(d, k) == IF k \in DOMAIN d THEN d[k] ELSE None

\* The empty dict / no keyword arguments.
EmptyDict == [k \in {} |-> None]

DIAL_ITT == "task_dial_itt"
TTI == "task_tti"
OPENAI_ITT == "task_openai_itt"
Modules == {DIAL_ITT, TTI, OPENAI_ITT}

\* task_dial_itt._put_image: file_name, mime_type_png
file_name_png == "dialx-banner.png"
mime_type_png == "image/png"
\* prompts and deployments of the three start() functions
DialIttPrompt == "What do you see on this picture?"
DialIttDeployment == "gpt-4o"
TtiPrompt == "Sunny day on Bali"
TtiDeployment == "dall-e-3"
OpenAiDeployment == "gpt-4o"
OpenAiPrompt1 == "What's in this image? Please describe it in detail."
OpenAiPrompt2 == "Describe the color scheme and branding elements in this image."
DataUriPrefix == "data:image/png;base64,"
\* task_tti.Size / Quality / Style
Size_square == "1024x1024"
Quality_hd == "hd"
Style_vivid == "vivid"
USER == "user"

\* CustomContent | None, as a tagged record: present = FALSE is None.
NoCustomContent == [present |-> FALSE, attachments |-> <<>>]
CustomContent(as) == [present |-> TRUE, attachments |-> as]

Attachment(t, u, ty) == [title |-> t, url |-> u, type |-> ty]
NoAttachment == Attachment(None, None, None)

\* Message(role, content, custom_content=None)
Message(r, c, cc) == [role |-> r, content |-> c, custom_content |-> cc]

\* --------------------------------------------- what the environment supplies
\* The bytes open(image_path,'rb').read() may yield.
ImageContents == { <<>>, <<137>>, <<137, 80>>, <<137, 80, 78, 71>> }

\* The dicts put_file may return: with a url, with url null, without url.
PutFileReplies ==
    { [url |-> "files/bucket/dialx-banner.png"],
      [url |-> "files/bucket2/dialx-banner.png"],
      [url |-> None],
      [name |-> "dialx-banner.png"] }

\* The url field of an attachment a backend generated.
AttachmentUrls == { None, "", "files/img1.png", "files/img2.png" }

GeneratedAttachments == { Attachment("image", u, "image/png") : u \in AttachmentUrls }

SeqsUpTo(S, n) == UNION { [1..k -> S] : k \in 0..n }

AttachmentLists == SeqsUpTo(GeneratedAttachments, MaxAtt)

\* The bytes get_file may return.
DownloadedBytes == { <<7>>, <<8, 9>> }

Response(c, cc) == [content |-> c, custom_content |-> cc]
NoResponse == Response(None, NoCustomContent)

\* Text answers (custom_content absent or empty) and image answers.
TextResponses ==
    { Response(c, cc) : c \in {None, "answer"},
                        cc \in {NoCustomContent, CustomContent(<<>>)} }
ImageResponses ==
    { Response(c, CustomContent(as)) : c \in {None, "answer"},
                                        as \in AttachmentLists \ {<<>>} }
CompletionReplies(m) ==
    IF m = TTI THEN TextResponses \cup ImageResponses ELSE TextResponses

\* ------------------------------------------------------------- state
VARIABLES
    loaded,         \* modules whose body has run to its end (sys.modules)
    script,         \* the module the current run executes
    origin,         \* who invoked the run: "import" (the module body's bare
                    \* start()), "main" (the __main__ guard), "call" (a caller)
    entry,          \* the function the run started in
    runs,           \* runs begun so far
    pc,             \* position in the code
    exc,            \* the call whose exception is propagating, or "none"
    log,            \* constructions, calls and their outcomes, in order
    session,        \* the bucket client's session: "none", "open", "closed"
    file,           \* the local file handle: "none", "open", "closed"
    now,            \* the wall clock
    client,         \* start(): deployment of the DialModelClient, or None
    attachment,     \* task_dial_itt.start(): attachment
    response,       \* start(): the latest get_completion response
    custom_fields,  \* task_tti.start(): custom_fields
    attachments,    \* _save_images(): attachments
    idx,            \* _save_images(): idx of enumerate (0-based, next item)
    image_bytes,    \* bytes read from / downloaded for the image
    base64_image,   \* task_openai_itt.start(): base64_image
    out_name        \* _save_images(): file_name

ctl == <<loaded, script, origin, entry, runs>>
locals == <<client, attachment, response, custom_fields, attachments, idx,
            image_bytes, base64_image, out_name>>
vars == <<loaded, script, origin, entry, runs, pc, exc, log, session, file,
          now, client, attachment, response, custom_fields, attachments, idx,
          image_bytes, base64_image, out_name>>

\* ------------------------------------------------------------- the log
\* An event: a construction or a call (phase "call", with its positional and
\* keyword arguments), or its outcome (phase "ret" with the value, or
\* "raise").  `sess` is the session's state when the event happened.
Event(op, phase, args, kwargs, val) ==
    [op |-> op, phase |-> phase, args |-> args, kwargs |-> kwargs,
     val |-> val, sess |-> session]
Call(op, args, kwargs) == Event(op, "call", args, kwargs, None)
Ret(op, val) == Event(op, "ret", <<>>, EmptyDict, val)
Raise(op) == Event(op, "raise", <<>>, EmptyDict, None)

Events(op, phase) == SelectSeq(log, LAMBDA e : e.op = op /\ e.phase = phase)
Count(op, phase) == Len(Events(op, phase))

RemoteOps == {"get_completion", "put_file", "get_file", "upload_file"}

Idle == pc = "idle"

\* file_name before _save_images has built one: a name with no pieces.
NoFileName == <<>>

Init ==
    /\ loaded = {}
    /\ script = "none"
    /\ origin = "none"
    /\ entry = "none"
    /\ runs = 0
    /\ pc = "idle"
    /\ exc = "none"
    /\ log = <<>>
    /\ session = "none"
    /\ file = "none"
    /\ now = 0
    /\ client = None
    /\ attachment = NoAttachment
    /\ response = NoResponse
    /\ custom_fields = EmptyDict
    /\ attachments = <<>>
    /\ idx = 0
    /\ image_bytes = <<>>
    /\ base64_image = <<>>
    /\ out_name = NoFileName

\* ------------------------------------------------------- runs and scopes
\* A run begins, from the state NewTest left.
BeginRun(m, o, e, p, as) ==
    /\ script' = m
    /\ origin' = o
    /\ entry' = e
    /\ runs' = runs + 1
    /\ pc' = p
    /\ attachments' = as
    /\ UNCHANGED <<loaded, exc, log, session, file, now, client, attachment,
                   response, custom_fields, idx, image_bytes, base64_image,
                   out_name>>

\* The run is over and the next one is prepared: a new process or a new test
\* (fresh doubles, nothing recorded).  The clock and sys.modules stay.
NewTest ==
    /\ pc \in {"done", "raised"}
    /\ pc' = "idle"
    /\ script' = "none"
    /\ origin' = "none"
    /\ entry' = "none"
    /\ exc' = "none"
    /\ log' = <<>>
    /\ session' = "none"
    /\ file' = "none"
    /\ client' = None
    /\ attachment' = NoAttachment
    /\ response' = NoResponse
    /\ custom_fields' = EmptyDict
    /\ attachments' = <<>>
    /\ idx' = 0
    /\ image_bytes' = <<>>
    /\ base64_image' = <<>>
    /\ out_name' = NoFileName
    /\ UNCHANGED <<loaded, runs, now>>

\* The run's function returned to whoever invoked it.  A module body that
\* ran to its end leaves the module in sys.modules.
Finish ==
    /\ pc' = "done"
    /\ loaded' = IF origin \in {"import", "main"} THEN loaded \cup {script}
                 ELSE loaded
    /\ UNCHANGED <<script, origin, entry, runs>>

\* DialBucketClient.__aenter__ / __aexit__: the client opens its session on
\* entry and releases it on exit (scoped acquisition and release).
BucketAEnter == "open"
BucketAExit(sess) == "closed"

\* Mutant of AsyncWithExit: the session is released on the return path only
\* (acquire ... release without try/finally).
AsyncWithExitLeaksOnError(sess, raising) == IF raising THEN sess ELSE "closed"

\* `async with DialBucketClient(...) as bucket_client:` left, by return
\* (raising = FALSE) or by an exception (raising = TRUE): __aexit__ runs
\* either way and the session it was given is released.
AsyncWithExit(sess, raising) == BucketAExit(sess)

AExitEvent == Event("__aexit__", "call", <<>>, EmptyDict, None)

\* `with open(...) as f:` left: the handle, if it was opened, is closed.
WithExit(f) == IF f = "open" THEN "closed" ELSE f

\* Mutant of RaiseInScope: the exception is caught and dropped
\* (`except Exception: pass`), and the function carries on.
RaiseInScopeSwallowed(op) ==
    /\ log' = Append(log, Raise(op))
    /\ pc' = IF script = "task_dial_itt" THEN "d_message" ELSE "s_loop"
    /\ UNCHANGED <<ctl, exc, file, session>>

\* An exception raised by `op` inside the async-with block of _put_image or
\* _save_images: both scopes are left and it propagates out of the run.
RaiseInScope(op) ==
    /\ log' = log \o << Raise(op), AExitEvent >>
    /\ file' = WithExit(file)
    /\ session' = AsyncWithExit(session, TRUE)
    /\ exc' = op
    /\ pc' = "raised"
    /\ UNCHANGED ctl

\* An exception raised by `op` in start(), outside any scope.
RaiseInStart(op) ==
    /\ log' = Append(log, Raise(op))
    /\ file' = WithExit(file)
    /\ exc' = op
    /\ pc' = "raised"
    /\ UNCHANGED <<ctl, session>>

ModelClientKwargs(d) ==
    [endpoint |-> "DIAL_CHAT_COMPLETIONS_ENDPOINT", deployment_name |-> d,
     api_key |-> "API_KEY"]
BucketClientKwargs == [api_key |-> "API_KEY", base_url |-> "DIAL_URL"]

\* Mutant of EnterBucketScope: the client is constructed and used without
\* `async with` (its session is never entered).
EnterBucketScopeNoEnter ==
    /\ log' = Append(log, Call("DialBucketClient", <<>>, BucketClientKwargs))
    /\ session' = session

\* `async with DialBucketClient(api_key=..., base_url=...)` entered.
EnterBucketScope ==
    /\ log' = log \o << Call("DialBucketClient", <<>>, BucketClientKwargs),
                        Call("__aenter__", <<>>, EmptyDict) >>
    /\ session' = BucketAEnter

\* ------------------------------------------------------- module loading
\* The first line start() runs, per module.
StartPc(m) == CASE m = DIAL_ITT -> "d_client"
                [] m = TTI -> "t_client"
                [] OTHER -> "o_client"

\* Whether executing the module body calls start(): task_dial_itt and
\* task_tti end with a bare `start()`; task_openai_itt guards it with
\* `if __name__ == "__main__":`.
ModuleBodyCallsStart(m, asMain) ==
    \/ m \in {DIAL_ITT, TTI}
    \/ m = OPENAI_ITT /\ asMain

\* The module is imported (or, asMain, run as a script).
LoadModule(m, asMain) ==
    /\ Idle
    /\ m \notin loaded
    /\ IF ModuleBodyCallsStart(m, asMain)
       THEN /\ runs < MaxRuns
            /\ BeginRun(m, IF m = OPENAI_ITT THEN "main" ELSE "import",
                        "start", StartPc(m), <<>>)
       ELSE /\ loaded' = loaded \cup {m}
            /\ UNCHANGED <<script, origin, entry, runs, pc, exc, log, session,
                           file, now, locals>>

\* A caller (a test, another module) invokes start() of a loaded module.
CallStart(m) ==
    /\ Idle /\ m \in loaded /\ runs < MaxRuns
    /\ BeginRun(m, "call", "start", StartPc(m), <<>>)

\* A caller awaits _put_image() directly.
CallPutImage ==
    /\ Idle /\ DIAL_ITT \in loaded /\ runs < MaxRuns
    /\ BeginRun(DIAL_ITT, "call", "_put_image", "p_enter", <<>>)

\* A caller awaits _save_images(as) directly.
CallSaveImages(as) ==
    /\ Idle /\ TTI \in loaded /\ runs < MaxRuns
    /\ BeginRun(TTI, "call", "_save_images", "s_enter", as)

\* ------------------------------------------------------- task_dial_itt
\* io.BytesIO(bs): an in-memory stream over bs.
BytesIO(bs) == [class |-> "BytesIO", bytes |-> bs]

\* put_file(name=file_name, mime_type=mime_type_png, content=image_bytes)
PutFileOp == "put_file"
PutFileArgs(content) == <<>>
PutFileKwargs(content) ==
    [name |-> file_name_png, mime_type |-> mime_type_png, content |-> content]

\* Mutant of PutImageAttachment: title and type swapped.
PutImageAttachmentSwapped(reply) ==
    Attachment(mime_type_png, DictGet(reply, "url"), file_name_png)

\* Attachment(title=file_name, url=response.get('url'), type=mime_type_png)
PutImageAttachment(reply) ==
    Attachment(file_name_png, DictGet(reply, "url"), mime_type_png)

\* start(): client = DialModelClient(...); then asyncio.run(_put_image()).
D_Client ==
    /\ pc = "d_client"
    /\ client' = DialIttDeployment
    /\ log' = Append(log, Call("DialModelClient", <<>>,
                               ModelClientKwargs(DialIttDeployment)))
    /\ pc' = "p_enter"
    /\ UNCHANGED <<ctl, exc, session, file, now, attachment, response,
                   custom_fields, attachments, idx, image_bytes, base64_image,
                   out_name>>

\* _put_image(): the bucket client's scope is entered.
P_Enter ==
    /\ pc = "p_enter"
    /\ EnterBucketScope
    /\ pc' = "p_open"
    /\ UNCHANGED <<ctl, exc, file, now, locals>>

\* open(image_path, 'rb'): succeeds or raises OSError.
P_Open(ok) ==
    /\ pc = "p_open"
    /\ IF ok
       THEN /\ file' = "open"
            /\ log' = Append(log, Call("open", <<file_name_png, "rb">>, EmptyDict))
            /\ pc' = "p_read"
            /\ UNCHANGED <<ctl, exc, session>>
       ELSE RaiseInScope("open")
    /\ UNCHANGED <<now, locals>>

\* image_bytes = BytesIO(image_file.read()): the content, or OSError.
P_Read(ok, bs) ==
    /\ pc = "p_read"
    /\ IF ok
       THEN /\ image_bytes' = BytesIO(bs)
            /\ log' = Append(log, Ret("read", bs))
            /\ pc' = "p_put"
            /\ UNCHANGED <<ctl, exc, session, file>>
       ELSE /\ RaiseInScope("read")
            /\ UNCHANGED image_bytes
    /\ UNCHANGED <<now, client, attachment, response, custom_fields,
                   attachments, idx, base64_image, out_name>>

\* await bucket_client.put_file(...): the call is issued.
P_Put ==
    /\ pc = "p_put"
    /\ log' = Append(log, Call(PutFileOp, PutFileArgs(image_bytes),
                               PutFileKwargs(image_bytes)))
    /\ pc' = "p_await_put"
    /\ UNCHANGED <<ctl, exc, session, file, now, locals>>

\* put_file returned `reply`: the Attachment is built and returned, which
\* leaves both scopes; start() goes on, a direct caller gets the result.
P_PutReturns(reply) ==
    /\ pc = "p_await_put"
    /\ attachment' = PutImageAttachment(reply)
    /\ log' = log \o << Ret(PutFileOp, reply),
                        Call("Attachment", <<>>, PutImageAttachment(reply)),
                        AExitEvent >>
    /\ file' = WithExit(file)
    /\ session' = AsyncWithExit(session, FALSE)
    /\ IF entry = "start"
       THEN pc' = "d_message" /\ UNCHANGED ctl
       ELSE Finish
    /\ UNCHANGED <<exc, now, client, response, custom_fields, attachments,
                   idx, image_bytes, base64_image, out_name>>

\* put_file raised.
P_PutRaises ==
    /\ pc = "p_await_put"
    /\ RaiseInScope(PutFileOp)
    /\ UNCHANGED <<now, locals>>

\* Mutant of DialIttMessage: the attachment is rebuilt without its url.
DialIttMessageNoUrl(att) ==
    Message(USER, DialIttPrompt,
            CustomContent(<< Attachment(att.title, None, att.type) >>))

\* Message(role=USER, content=..., custom_content=CustomContent([attachment]))
DialIttMessage(att) == Message(USER, DialIttPrompt, CustomContent(<<att>>))

\* start(): the message is built and get_completion(messages=[message]) issued.
D_Message ==
    /\ pc = "d_message"
    /\ log' = Append(log, Call("get_completion", <<>>,
                               [messages |-> << DialIttMessage(attachment) >>]))
    /\ pc' = "d_await"
    /\ UNCHANGED <<ctl, exc, session, file, now, locals>>

D_CompletionReturns(r) ==
    /\ pc = "d_await"
    /\ response' = r
    /\ log' = Append(log, Ret("get_completion", r))
    /\ Finish
    /\ UNCHANGED <<exc, session, file, now, client, attachment, custom_fields,
                   attachments, idx, image_bytes, base64_image, out_name>>

D_CompletionRaises ==
    /\ pc = "d_await"
    /\ RaiseInStart("get_completion")
    /\ UNCHANGED <<now, locals>>

\* ------------------------------------------------------------- task_tti
\* custom_fields = {"size": Size.square, "quality": Quality.hd, "style": Style.vivid}
TtiCustomFields ==
    [size |-> Size_square, quality |-> Quality_hd, style |-> Style_vivid]

\* Mutant of TtiMessage: the prompt is sent with the system role.
TtiMessageSystemRole == Message("system", TtiPrompt, NoCustomContent)

\* Message(role=Role.USER, content=prompt)
TtiMessage == Message(USER, TtiPrompt, NoCustomContent)

\* Mutant of TtiCompletionKwargs: the style key is dropped on the way.
TtiCompletionKwargsDropsStyle(cf) ==
    [messages |-> << TtiMessage >>,
     custom_fields |-> [k \in DOMAIN cf \ {"style"} |-> cf[k]]]

\* get_completion(messages=[message], custom_fields=custom_fields)
TtiCompletionKwargs(cf) == [messages |-> << TtiMessage >>, custom_fields |-> cf]

\* Mutant of HasImages: only custom_content is checked.
HasImagesAnyCustomContent(r) == r.custom_content.present

\* `if response.custom_content and response.custom_content.attachments:`
HasImages(r) ==
    r.custom_content.present /\ Len(r.custom_content.attachments) > 0

\* Mutant of HasUrl: `if attachment.url is not None:`.
HasUrlNotNone(a) == a.url # None

\* `if attachment.url:` in _save_images
HasUrl(a) == Truthy(a.url)

\* The model clock ticks TicksPerSecond times a second; strftime's
\* "%Y%m%d_%H%M%S" keeps whole seconds.
TicksPerSecond == 2
strftime(t) == t \div TicksPerSecond

\* Mutant of FileName: the name carries the timestamp only.
FileNameTimestampOnly(timestamp, i) ==
    << "generated_image_", timestamp, ".png" >>

\* Mutant of FileName: the suffix is the 0-based idx.
FileNameZeroBased(timestamp, i) ==
    << "generated_image_", timestamp, "_", i, ".png" >>

\* f"generated_image_{timestamp}_{idx + 1}.png"
FileName(timestamp, i) == << "generated_image_", timestamp, "_", i + 1, ".png" >>

\* start(): the client, custom_fields and the message are built.
T_Client ==
    /\ pc = "t_client"
    /\ client' = TtiDeployment
    /\ custom_fields' = TtiCustomFields
    /\ log' = Append(log, Call("DialModelClient", <<>>,
                               ModelClientKwargs(TtiDeployment)))
    /\ pc' = "t_completion"
    /\ UNCHANGED <<ctl, exc, session, file, now, attachment, response,
                   attachments, idx, image_bytes, base64_image, out_name>>

\* start(): get_completion is issued.
T_Completion ==
    /\ pc = "t_completion"
    /\ log' = Append(log, Call("get_completion", <<>>,
                               TtiCompletionKwargs(custom_fields)))
    /\ pc' = "t_await"
    /\ UNCHANGED <<ctl, exc, session, file, now, locals>>

\* get_completion returned r: with images, asyncio.run(_save_images(...));
\* without, the warning is printed and start() returns.
T_CompletionReturns(r) ==
    /\ pc = "t_await"
    /\ response' = r
    /\ log' = Append(log, Ret("get_completion", r))
    /\ IF HasImages(r)
       THEN /\ attachments' = r.custom_content.attachments
            /\ pc' = "s_enter"
            /\ UNCHANGED ctl
       ELSE /\ Finish
            /\ UNCHANGED attachments
    /\ UNCHANGED <<exc, session, file, now, client, attachment, custom_fields,
                   idx, image_bytes, base64_image, out_name>>

T_CompletionRaises ==
    /\ pc = "t_await"
    /\ RaiseInStart("get_completion")
    /\ UNCHANGED <<now, locals>>

\* _save_images(): the bucket client's scope is entered, the loop starts.
S_Enter ==
    /\ pc = "s_enter"
    /\ EnterBucketScope
    /\ idx' = 0
    /\ pc' = "s_loop"
    /\ UNCHANGED <<ctl, exc, file, now, client, attachment, response,
                   custom_fields, attachments, image_bytes, base64_image,
                   out_name>>

\* Mutant of S_Skip: the loop does not move on from an attachment without
\* a url (a hand-written index loop whose `continue` skips the increment).
S_SkipStays ==
    /\ pc = "s_loop"
    /\ idx < Len(attachments)
    /\ ~HasUrl(attachments[idx + 1])
    /\ idx' = idx
    /\ UNCHANGED <<ctl, pc, exc, log, session, file, now, client, attachment,
                   response, custom_fields, attachments, image_bytes,
                   base64_image, out_name>>

\* The loop's next attachment has no url: nothing is done for it.
S_Skip ==
    /\ pc = "s_loop"
    /\ idx < Len(attachments)
    /\ ~HasUrl(attachments[idx + 1])
    /\ idx' = idx + 1
    /\ UNCHANGED <<ctl, pc, exc, log, session, file, now, client, attachment,
                   response, custom_fields, attachments, image_bytes,
                   base64_image, out_name>>

\* Mutant of S_GetFile: the list is walked from its end
\* (`for ... in reversed(attachments)`), idx counting the visits.
S_GetFileReversed ==
    /\ pc = "s_loop"
    /\ idx < Len(attachments)
    /\ HasUrl(attachments[idx + 1])
    /\ log' = Append(log, Call("get_file",
                               << attachments[Len(attachments) - idx].url >>,
                               EmptyDict))
    /\ pc' = "s_await_get"
    /\ UNCHANGED <<ctl, exc, session, file, now, locals>>

\* Mutant of S_GetFile: a new DialBucketClient is constructed for every
\* download.
S_GetFileNewClient ==
    /\ pc = "s_loop"
    /\ idx < Len(attachments)
    /\ HasUrl(attachments[idx + 1])
    /\ log' = log \o << Call("DialBucketClient", <<>>, BucketClientKwargs),
                        Call("get_file", << attachments[idx + 1].url >>,
                             EmptyDict) >>
    /\ pc' = "s_await_get"
    /\ UNCHANGED <<ctl, exc, session, file, now, locals>>

\* The loop's next attachment has a url: get_file(attachment.url) is issued.
S_GetFile ==
    /\ pc = "s_loop"
    /\ idx < Len(attachments)
    /\ HasUrl(attachments[idx + 1])
    /\ log' = Append(log, Call("get_file", << attachments[idx + 1].url >>,
                               EmptyDict))
    /\ pc' = "s_await_get"
    /\ UNCHANGED <<ctl, exc, session, file, now, locals>>

\* Mutant of S_GetFileReturns: only the first download is kept; later
\* attachments get the bytes already held.
S_GetFileReturnsStale(bs, t) ==
    /\ pc = "s_await_get"
    /\ t >= now
    /\ now' = t
    /\ image_bytes' = IF idx = 0 THEN bs ELSE image_bytes
    /\ out_name' = FileName(strftime(t), idx)
    /\ log' = Append(log, Ret("get_file", bs))
    /\ pc' = "s_open"
    /\ UNCHANGED <<ctl, exc, session, file, client, attachment, response,
                   custom_fields, attachments, idx, base64_image>>

\* get_file returned bs; the clock is read (at tick t) and the name built.
S_GetFileReturns(bs, t) ==
    /\ pc = "s_await_get"
    /\ t >= now
    /\ now' = t
    /\ image_bytes' = bs
    /\ out_name' = FileName(strftime(t), idx)
    /\ log' = Append(log, Ret("get_file", bs))
    /\ pc' = "s_open"
    /\ UNCHANGED <<ctl, exc, session, file, client, attachment, response,
                   custom_fields, attachments, idx, base64_image>>

\* Mutant of S_GetFileRaises: the failed download is caught per attachment
\* (`try: ... except Exception: continue`) and the loop goes on.
S_GetFileRaisesSkips ==
    /\ pc = "s_await_get"
    /\ log' = Append(log, Raise("get_file"))
    /\ idx' = idx + 1
    /\ pc' = "s_loop"
    /\ UNCHANGED <<ctl, exc, session, file, now, client, attachment,
                   response, custom_fields, attachments, image_bytes,
                   base64_image, out_name>>

S_GetFileRaises ==
    /\ pc = "s_await_get"
    /\ RaiseInScope("get_file")
    /\ UNCHANGED <<now, locals>>

\* open(file_name, 'wb'): succeeds or raises OSError.
S_Open(ok) ==
    /\ pc = "s_open"
    /\ IF ok
       THEN /\ file' = "open"
            /\ log' = Append(log, Call("open", << out_name, "wb" >>, EmptyDict))
            /\ pc' = "s_write"
            /\ UNCHANGED <<ctl, exc, session>>
       ELSE RaiseInScope("open")
    /\ UNCHANGED <<now, locals>>

\* f.write(image_bytes), then the file is closed and the loop goes on.
S_Write(ok) ==
    /\ pc = "s_write"
    /\ IF ok
       THEN /\ log' = Append(log, Call("write", << image_bytes >>, EmptyDict))
            /\ file' = WithExit(file)
            /\ idx' = idx + 1
            /\ pc' = "s_loop"
            /\ UNCHANGED <<ctl, exc, session>>
       ELSE /\ RaiseInScope("write")
            /\ UNCHANGED idx
    /\ UNCHANGED <<now, client, attachment, response, custom_fields,
                   attachments, image_bytes, base64_image, out_name>>

\* The loop is over: the scope is left and _save_images returns; start()
\* prints the configuration and returns too.
S_Return ==
    /\ pc = "s_loop"
    /\ idx >= Len(attachments)
    /\ log' = Append(log, AExitEvent)
    /\ session' = AsyncWithExit(session, FALSE)
    /\ Finish
    /\ UNCHANGED <<exc, file, now, locals>>

\* ------------------------------------------------------ task_openai_itt
\* The base64 alphabet (RFC 4648), value v at position v + 1.
B64Alphabet ==
    << "A", "B", "C", "D", "E", "F", "G", "H", "I", "J", "K", "L", "M",
       "N", "O", "P", "Q", "R", "S", "T", "U", "V", "W", "X", "Y", "Z",
       "a", "b", "c", "d", "e", "f", "g", "h", "i", "j", "k", "l", "m",
       "n", "o", "p", "q", "r", "s", "t", "u", "v", "w", "x", "y", "z",
       "0", "1", "2", "3", "4", "5", "6", "7", "8", "9", "+", "/" >>
B64Char(v) == B64Alphabet[v + 1]

\* Mutant of b64encode: a last group of one or two bytes is filled with zero
\* bytes and encoded whole, without '=' padding.
RECURSIVE b64encodeNoPad(_)
b64encodeNoPad(bs) ==
    IF Len(bs) = 0 THEN <<>>
    ELSE LET b1 == bs[1]
             b2 == IF Len(bs) >= 2 THEN bs[2] ELSE 0
             b3 == IF Len(bs) >= 3 THEN bs[3] ELSE 0
         IN  << B64Char(b1 \div 4),
                B64Char((b1 % 4) * 16 + b2 \div 16),
                B64Char((b2 % 16) * 4 + b3 \div 64),
                B64Char(b3 % 64) >>
             \o b64encodeNoPad(SubSeq(bs, 4, Len(bs)))

\* base64.b64encode(bs).decode('utf-8'): three bytes become four characters,
\* a last group of one or two bytes is padded with '='.
RECURSIVE b64encode(_)
b64encode(bs) ==
    IF Len(bs) = 0 THEN <<>>
    ELSE IF Len(bs) = 1 THEN
        << B64Char(bs[1] \div 4), B64Char((bs[1] % 4) * 16), "=", "=" >>
    ELSE IF Len(bs) = 2 THEN
        << B64Char(bs[1] \div 4),
           B64Char((bs[1] % 4) * 16 + bs[2] \div 16),
           B64Char((bs[2] % 16) * 4), "=" >>
    ELSE
        << B64Char(bs[1] \div 4),
           B64Char((bs[1] % 4) * 16 + bs[2] \div 16),
           B64Char((bs[2] % 16) * 4 + bs[3] \div 64),
           B64Char(bs[3] % 64) >>
        \o b64encode(SubSeq(bs, 4, Len(bs)))

\* Mutant of DataUri: the url is the bare base64 text, without the prefix.
DataUriBare(b64) == b64

\* f"data:image/png;base64,{base64_image}": the prefix, then the characters.
DataUri(b64) == << DataUriPrefix >> \o b64

TxtContent(text) == [type |-> "text", text |-> text]
ImgContent(url) == [type |-> "image_url", image_url |-> [url |-> url]]

\* Mutant of OpenAiMessage: the image part comes first.
OpenAiMessageImageFirst(prompt, b64) ==
    [role |-> USER, content |-> << ImgContent(DataUri(b64)), TxtContent(prompt) >>]

\* ContentedMessage(role=USER, content=[TxtContent(...), ImgContent(...)])
OpenAiMessage(prompt, b64) ==
    [role |-> USER, content |-> << TxtContent(prompt), ImgContent(DataUri(b64)) >>]

\* messages=[base64_message] and messages=[data_uri_message]
FirstConversation(b64) == << OpenAiMessage(OpenAiPrompt1, b64) >>

\* Mutant of SecondConversation: the first exchange's message is resent.
SecondConversationWithHistory(b64) ==
    << OpenAiMessage(OpenAiPrompt1, b64), OpenAiMessage(OpenAiPrompt2, b64) >>

SecondConversation(b64) == << OpenAiMessage(OpenAiPrompt2, b64) >>

O_Client ==
    /\ pc = "o_client"
    /\ client' = OpenAiDeployment
    /\ log' = Append(log, Call("DialModelClient", <<>>,
                               ModelClientKwargs(OpenAiDeployment)))
    /\ pc' = "o_open"
    /\ UNCHANGED <<ctl, exc, session, file, now, attachment, response,
                   custom_fields, attachments, idx, image_bytes, base64_image,
                   out_name>>

\* open(image_path, "rb"): succeeds or raises OSError.
O_Open(ok) ==
    /\ pc = "o_open"
    /\ IF ok
       THEN /\ file' = "open"
            /\ log' = Append(log, Call("open", <<file_name_png, "rb">>, EmptyDict))
            /\ pc' = "o_read"
            /\ UNCHANGED <<ctl, exc, session>>
       ELSE RaiseInStart("open")
    /\ UNCHANGED <<now, locals>>

\* image_bytes = image_file.read(); the file is closed; the bytes are encoded.
O_Read(ok, bs) ==
    /\ pc = "o_read"
    /\ IF ok
       THEN /\ image_bytes' = bs
            /\ base64_image' = b64encode(bs)
            /\ file' = WithExit(file)
            /\ log' = Append(log, Ret("read", bs))
            /\ pc' = "o_completion1"
            /\ UNCHANGED <<ctl, exc, session>>
       ELSE /\ RaiseInStart("read")
            /\ UNCHANGED <<image_bytes, base64_image>>
    /\ UNCHANGED <<now, client, attachment, response, custom_fields,
                   attachments, idx, out_name>>

\* get_completion(messages=[base64_message]) is issued.
O_Completion1 ==
    /\ pc = "o_completion1"
    /\ log' = Append(log, Call("get_completion", <<>>,
                [messages |-> FirstConversation(base64_image)]))
    /\ pc' = "o_await1"
    /\ UNCHANGED <<ctl, exc, session, file, now, locals>>

O_Completion1Returns(r) ==
    /\ pc = "o_await1"
    /\ response' = r
    /\ log' = Append(log, Ret("get_completion", r))
    /\ pc' = "o_completion2"
    /\ UNCHANGED <<ctl, exc, session, file, now, client, attachment,
                   custom_fields, attachments, idx, image_bytes, base64_image,
                   out_name>>

O_Completion1Raises ==
    /\ pc = "o_await1"
    /\ RaiseInStart("get_completion")
    /\ UNCHANGED <<now, locals>>

\* get_completion(messages=[data_uri_message]) is issued.
O_Completion2 ==
    /\ pc = "o_completion2"
    /\ log' = Append(log, Call("get_completion", <<>>,
                [messages |-> SecondConversation(base64_image)]))
    /\ pc' = "o_await2"
    /\ UNCHANGED <<ctl, exc, session, file, now, locals>>

O_Completion2Returns(r) ==
    /\ pc = "o_await2"
    /\ response' = r
    /\ log' = Append(log, Ret("get_completion", r))
    /\ Finish
    /\ UNCHANGED <<exc, session, file, now, client, attachment, custom_fields,
                   attachments, idx, image_bytes, base64_image, out_name>>

O_Completion2Raises ==
    /\ pc = "o_await2"
    /\ RaiseInStart("get_completion")
    /\ UNCHANGED <<now, locals>>

\* ------------------------------------------------------- specification
Next ==
    \/ NewTest
    \/ \E m \in Modules, asMain \in BOOLEAN : LoadModule(m, asMain)
    \/ \E m \in Modules : CallStart(m)
    \/ CallPutImage
    \/ \E as \in AttachmentLists : CallSaveImages(as)
    \/ D_Client
    \/ P_Enter
    \/ \E ok \in BOOLEAN : P_Open(ok)
    \/ \E ok \in BOOLEAN, bs \in ImageContents : P_Read(ok, bs)
    \/ P_Put
    \/ \E reply \in PutFileReplies : P_PutReturns(reply)
    \/ P_PutRaises
    \/ D_Message
    \/ \E r \in CompletionReplies(DIAL_ITT) : D_CompletionReturns(r)
    \/ D_CompletionRaises
    \/ T_Client
    \/ T_Completion
    \/ \E r \in CompletionReplies(TTI) : T_CompletionReturns(r)
    \/ T_CompletionRaises
    \/ S_Enter
    \/ S_Skip
    \/ S_GetFile
    \/ \E bs \in DownloadedBytes, t \in 0..MaxClock : S_GetFileReturns(bs, t)
    \/ S_GetFileRaises
    \/ \E ok \in BOOLEAN : S_Open(ok)
    \/ \E ok \in BOOLEAN : S_Write(ok)
    \/ S_Return
    \/ O_Client
    \/ \E ok \in BOOLEAN : O_Open(ok)
    \/ \E ok \in BOOLEAN, bs \in ImageContents : O_Read(ok, bs)
    \/ O_Completion1
    \/ \E r \in CompletionReplies(OPENAI_ITT) : O_Completion1Returns(r)
    \/ O_Completion1Raises
    \/ O_Completion2
    \/ \E r \in CompletionReplies(OPENAI_ITT) : O_Completion2Returns(r)
    \/ O_Completion2Raises

Spec == Init /\ [][Next]_vars

\* ------------------------------------------------ _save_images alone
\* One invocation of _save_images(as) by a caller, from its first line to
\* its end, for every input list; the module was imported by an earlier run.
SaveInit ==
    /\ loaded = {TTI}
    /\ script = TTI
    /\ origin = "call"
    /\ entry = "_save_images"
    /\ runs = 2
    /\ pc = "s_enter"
    /\ exc = "none"
    /\ log = <<>>
    /\ session = "none"
    /\ file = "none"
    /\ now \in 0..MaxClock
    /\ client = None
    /\ attachment = NoAttachment
    /\ response = NoResponse
    /\ custom_fields = EmptyDict
    /\ attachments \in AttachmentLists
    /\ idx = 0
    /\ image_bytes = <<>>
    /\ base64_image = <<>>
    /\ out_name = NoFileName

SaveNext ==
    \/ S_Enter
    \/ S_Skip
    \/ S_GetFile
    \/ \E bs \in DownloadedBytes, t \in 0..MaxClock : S_GetFileReturns(bs, t)
    \/ S_GetFileRaises
    \/ \E ok \in BOOLEAN : S_Open(ok)
    \/ \E ok \in BOOLEAN : S_Write(ok)
    \/ S_Return

\* The position of the coroutine: every step of _save_images changes it.
position == <<pc, idx>>

\* The event loop runs the coroutine whenever it can go on, and every
\* awaited get_file eventually returns or raises.
SaveSpec == SaveInit /\ [][SaveNext]_vars /\ WF_position(SaveNext)

\* -------------------------------------------- the attachment store alone
\* A DialBucketClient with its session open, and the remote store behind it,
\* driven by a caller that uploads and downloads in any order.  Neither the
\* client nor the store is in the repository's sources: uploads are kept by
\* url, the latest confirmed upload to a url is what the url holds.
MaxStoreOps == 3
StoreNames == {"a.png", "b.png"}
StoreMimes == {"image/png", "image/jpeg"}
StoreContents == {<< 1 >>, << 2, 3 >>}

\* The url the store issues for an upload named n.
StoreUrl(n) == << "files", "BUCKET", n >>

\* The store calls issued so far.
StoreOps == Count("put_file", "call") + Count("get_file", "call")

\* Where in the log the uploads to u were confirmed.
UploadsTo(u) ==
    {i \in 2..Len(log) : /\ log[i].op = "put_file"
                         /\ log[i].phase = "ret"
                         /\ log[i].val.url = u}
IssuedUrls == {u \in {StoreUrl(n) : n \in StoreNames} : UploadsTo(u) # {}}

MaxIn(S) == CHOOSE x \in S : \A y \in S : y <= x

\* Mutant of Stored: a url keeps the first payload uploaded to it.
StoredFirstWrite(u) ==
    LET first == CHOOSE x \in UploadsTo(u) : \A y \in UploadsTo(u) : x <= y
    IN  log[first - 1].kwargs.content.bytes

\* What the store holds at u: the payload of the latest confirmed upload.
Stored(u) == log[MaxIn(UploadsTo(u)) - 1].kwargs.content.bytes

StoreInit ==
    /\ loaded = {}
    /\ script = "none"
    /\ origin = "none"
    /\ entry = "none"
    /\ runs = 0
    /\ pc = "store"
    /\ exc = "none"
    /\ log = <<>>
    /\ session = BucketAEnter
    /\ file = "none"
    /\ now = 0
    /\ client = None
    /\ attachment = NoAttachment
    /\ response = NoResponse
    /\ custom_fields = EmptyDict
    /\ attachments = <<>>
    /\ idx = 0
    /\ image_bytes = <<>>
    /\ base64_image = <<>>
    /\ out_name = NoFileName

\* put_file(name=n, mime_type=m, content=BytesIO(bs)) is confirmed by the
\* store, which answers with the url.
Store_Upload(n, m, bs) ==
    /\ pc = "store" /\ session = "open" /\ StoreOps < MaxStoreOps
    /\ log' = log \o << Call("put_file", <<>>,
                             [name |-> n, mime_type |-> m,
                              content |-> BytesIO(bs)]),
                        Ret("put_file", [url |-> StoreUrl(n)]) >>
    /\ UNCHANGED <<ctl, pc, exc, session, file, now, locals>>

\* put_file fails (UploadError): no url is returned, nothing is stored.
Store_UploadFails(n, m, bs) ==
    /\ pc = "store" /\ session = "open" /\ StoreOps < MaxStoreOps
    /\ log' = log \o << Call("put_file", <<>>,
                             [name |-> n, mime_type |-> m,
                              content |-> BytesIO(bs)]),
                        Raise("put_file") >>
    /\ UNCHANGED <<ctl, pc, exc, session, file, now, locals>>

\* get_file(u), for a url the store issued, returns what the store holds.
Store_Download(u) ==
    /\ pc = "store" /\ session = "open" /\ StoreOps < MaxStoreOps
    /\ u \in IssuedUrls
    /\ log' = log \o << Call("get_file", << u >>, EmptyDict),
                        Ret("get_file", Stored(u)) >>
    /\ UNCHANGED <<ctl, pc, exc, session, file, now, locals>>

\* get_file fails (DownloadError): nothing is returned.
Store_DownloadFails(u) ==
    /\ pc = "store" /\ session = "open" /\ StoreOps < MaxStoreOps
    /\ u \in IssuedUrls
    /\ log' = log \o << Call("get_file", << u >>, EmptyDict),
                        Raise("get_file") >>
    /\ UNCHANGED <<ctl, pc, exc, session, file, now, locals>>

StoreNext ==
    \/ \E n \in StoreNames, m \in StoreMimes, bs \in StoreContents :
          Store_Upload(n, m, bs)
    \/ \E n \in StoreNames, m \in StoreMimes, bs \in StoreContents :
          Store_UploadFails(n, m, bs)
    \/ \E n \in StoreNames : Store_Download(StoreUrl(n))
    \/ \E n \in StoreNames : Store_DownloadFails(StoreUrl(n))

StoreSpec == StoreInit /\ [][StoreNext]_vars

\* ------------------------------------------------ uploads in parallel
\* One DialBucketClient, its session open, with several put_file calls in
\* flight at once (asyncio.gather over uploads of distinct files).  Each
\* call passes three steps in any interleaving with the others: it is issued
\* (the request is built), its body reaches the store (PUT to the url), and
\* it returns the store's answer.  Modelled from the specification.
MaxUploads == 2
ConcNames == {"a.png", "b.png", "c.png"}
ConcContents == {<< 1 >>, << 2, 3 >>, << 4, 5, 6 >>}

UploadCalls == Events("put_file", "call")
IssuedNames == {UploadCalls[i].kwargs.name : i \in 1..Len(UploadCalls)}
IssuedContents ==
    {UploadCalls[i].kwargs.content.bytes : i \in 1..Len(UploadCalls)}

\* The store received the body of the upload named n / the call returned.
Sent(n) ==
    \E i \in 1..Len(log) : log[i].op = "PUT" /\ log[i].args[1] = StoreUrl(n)
Returned(n) ==
    \E i \in 1..Len(log) : /\ log[i].op = "put_file" /\ log[i].phase = "ret"
                           /\ log[i].val.url = StoreUrl(n)

\* Mutant of RequestBody: the client keeps one request buffer, which every
\* new call overwrites.
RequestBodySharedBuffer(n) == UploadCalls[Len(UploadCalls)].kwargs.content.bytes

\* The body sent for the upload named n: the content that call was given
\* (no state is shared between the calls in flight).
RequestBody(n) ==
    LET k == CHOOSE i \in 1..Len(UploadCalls) : UploadCalls[i].kwargs.name = n
    IN  UploadCalls[k].kwargs.content.bytes

\* put_file(name=n, mime_type=m, content=BytesIO(bs)) is issued, for a file
\* and a payload no other call of the batch has.
Conc_Issue(n, m, bs) ==
    /\ pc = "store" /\ session = "open"
    /\ Len(UploadCalls) < MaxUploads
    /\ n \notin IssuedNames /\ bs \notin IssuedContents
    /\ log' = Append(log, Call("put_file", <<>>,
                               [name |-> n, mime_type |-> m,
                                content |-> BytesIO(bs)]))
    /\ UNCHANGED <<ctl, pc, exc, session, file, now, locals>>

\* The request of the upload named n reaches the store.
Conc_Send(n) ==
    /\ pc = "store" /\ session = "open"
    /\ n \in IssuedNames /\ ~Sent(n)
    /\ log' = Append(log, Event("PUT", "call",
                                << StoreUrl(n), RequestBody(n) >>,
                                EmptyDict, None))
    /\ UNCHANGED <<ctl, pc, exc, session, file, now, locals>>

\* The store's answer for the upload named n comes back.
Conc_Return(n) ==
    /\ pc = "store" /\ session = "open"
    /\ Sent(n) /\ ~Returned(n)
    /\ log' = Append(log, Ret("put_file", [url |-> StoreUrl(n)]))
    /\ UNCHANGED <<ctl, pc, exc, session, file, now, locals>>

ConcNext ==
    \/ \E n \in ConcNames, m \in StoreMimes, bs \in ConcContents :
          Conc_Issue(n, m, bs)
    \/ \E n \in ConcNames : Conc_Send(n)
    \/ \E n \in ConcNames : Conc_Return(n)

ConcSpec == StoreInit /\ [][ConcNext]_vars

\* ------------------------------------------------------------ claims
\* Control is inside an `async with DialBucketClient(...)` block.
ScopePcs == {"p_open", "p_read", "p_put", "p_await_put",
             "s_loop", "s_await_get", "s_open", "s_write"}

IsCall(e, op) == e.op = op /\ e.phase = "call"
IsRemoteCall(e) == e.phase = "call" /\ e.op \in RemoteOps

\* C1: in _put_image and _save_images the session acquired on entry is
\* released on every exit path: whenever control is outside the async-with
\* block (the function returned, or an exception of put_file, get_file,
\* open, read or write left it), no session is open, and one that was
\* acquired is closed.
C1_SessionReleasedOnEveryExit ==
    pc \notin ScopePcs =>
        /\ session # "open"
        /\ Count("__aenter__", "call") > 0 => session = "closed"

\* C1 witness: the second download of a _save_images run failed, and the
\* session is closed.
C1_Witness ==
    /\ pc = "raised" /\ exc = "get_file" /\ idx = 1
    /\ Count("__aenter__", "call") = 1
    /\ session = "closed"

\* C2: in task_dial_itt.start every get_completion call comes after
\* put_file returned and _put_image built its Attachment, and the sent
\* message carries exactly that Attachment as its single attachment.
C2_CompletionAfterUpload ==
    script = DIAL_ITT =>
        \A i \in 1..Len(log) :
            IsCall(log[i], "get_completion") =>
                /\ Len(log[i].kwargs.messages) = 1
                /\ \E j \in 1..(i - 2) :
                    /\ log[j].op = "put_file" /\ log[j].phase = "ret"
                    /\ IsCall(log[j + 1], "Attachment")
                    /\ log[i].kwargs.messages[1].custom_content
                         = [present |-> TRUE,
                            attachments |-> << log[j + 1].kwargs >>]

\* C2 witness: get_completion has been issued with an uploaded attachment.
C2_Witness ==
    /\ script = DIAL_ITT /\ pc = "d_await"
    /\ attachment.url = "files/bucket/dialx-banner.png"

\* _put_image returned an Attachment in this run.
PutImageReturned == script = DIAL_ITT /\ Count("Attachment", "call") = 1

\* C3: whenever _put_image returns an Attachment, its url is present, for
\* every reply put_file returns without raising.
C3_ReturnedUrlPresent ==
    PutImageReturned => attachment.url # None

\* C4: the get_completion call of task_tti.start receives custom_fields with
\* exactly the keys size, quality, style and the values '1024x1024', 'hd',
\* 'vivid', and start()'s own mapping is the same before and after the call.
C4_CustomFieldsVerbatim ==
    (script = TTI /\ entry = "start") =>
        /\ pc # "t_client" =>
             /\ DOMAIN custom_fields = {"size", "quality", "style"}
             /\ custom_fields["size"] = "1024x1024"
             /\ custom_fields["quality"] = "hd"
             /\ custom_fields["style"] = "vivid"
        /\ \A i \in 1..Len(log) :
             IsCall(log[i], "get_completion") =>
                /\ DOMAIN log[i].kwargs = {"messages", "custom_fields"}
                /\ log[i].kwargs.custom_fields = custom_fields

\* C4 witness: the call was made and has returned.
C4_Witness ==
    /\ script = TTI /\ entry = "start"
    /\ Count("get_completion", "call") = 1
    /\ Count("get_completion", "ret") = 1

\* The response start() received carries at least one attachment.
ResponseHasAttachment ==
    /\ response.custom_content.present
    /\ Len(response.custom_content.attachments) >= 1

\* C5: task_tti.start runs the download phase exactly once when the
\* response has a custom_content with at least one attachment; when
\* custom_content is absent or its list is empty it opens no bucket session,
\* touches no file, issues no store call and returns without raising.
C5_DownloadOnlyWithAttachments ==
    (script = TTI /\ entry = "start" /\ Count("get_completion", "ret") = 1) =>
        IF ResponseHasAttachment
        THEN /\ Count("DialBucketClient", "call") <= 1
             /\ pc \notin {"t_await", "s_enter"} =>
                    Count("DialBucketClient", "call") = 1
        ELSE /\ pc = "done" /\ exc = "none"
             /\ session = "none"
             /\ \A i \in 1..Len(log) :
                    log[i].op \notin {"DialBucketClient", "__aenter__",
                                      "get_file", "open", "write"}

\* C5 witness: start() returned after a response whose attachment list is
\* empty.
C5_Witness ==
    /\ script = TTI /\ entry = "start" /\ pc = "done"
    /\ response.custom_content = CustomContent(<<>>)

\* C6: once a gateway or store call raised, the run has ended with that
\* exception propagating, and no gateway or store call was issued after it
\* (none retried, none further); after a failed upload get_completion is
\* never called.
C6_ErrorsPropagateNoRetry ==
    \A i \in 1..Len(log) :
        (log[i].phase = "raise" /\ log[i].op \in RemoteOps) =>
            /\ pc = "raised"
            /\ exc = log[i].op
            /\ \A j \in (i + 1)..Len(log) : ~IsRemoteCall(log[j])

\* C6 witness: in task_dial_itt.start the upload failed.
C6_Witness ==
    /\ script = DIAL_ITT /\ entry = "start"
    /\ pc = "raised" /\ exc = "put_file"
    /\ Count("get_completion", "call") = 0

\* C7: loading task_dial_itt or task_tti constructs no client and issues no
\* get_completion, put_file or get_file call; that happens only in a
\* start() a caller invoked.
C7_LoadingTouchesNoClient ==
    origin = "import" =>
        \A i \in 1..Len(log) :
            /\ log[i].op \notin {"DialModelClient", "DialBucketClient"}
            /\ ~IsRemoteCall(log[i])

\* C8: the Attachment _put_image returns has the title that was passed to
\* put_file as name ('dialx-banner.png'), the type that was passed as
\* mime_type ('image/png'), and the url of put_file's reply (none when the
\* reply has none).
C8_AttachmentFromUpload ==
    PutImageReturned =>
        LET c == Events("put_file", "call")[1]
            r == Events("put_file", "ret")[1].val
        IN  /\ attachment.title = c.kwargs.name
            /\ attachment.title = "dialx-banner.png"
            /\ attachment.type = c.kwargs.mime_type
            /\ attachment.type = "image/png"
            /\ attachment.url = IF "url" \in DOMAIN r THEN r.url ELSE None

\* C8 witness: a direct _put_image() returned an Attachment with the
\* store's url.
C8_Witness ==
    /\ script = DIAL_ITT /\ entry = "_put_image" /\ pc = "done"
    /\ attachment.url = "files/bucket2/dialx-banner.png"

\* C9: each _put_image execution calls the bucket client's upload_file
\* exactly once, with a BytesIO of the file's bytes as first positional
\* argument, and the value that call returns is the Attachment's url.
C9_UploadsThroughUploadFile ==
    PutImageReturned =>
        /\ Count("upload_file", "call") = 1
        /\ Len(Events("upload_file", "call")[1].args) >= 1
        /\ Events("upload_file", "call")[1].args[1].class = "BytesIO"
        /\ Events("upload_file", "ret")[1].val = attachment.url

\* The attachments of the list that have a non-empty url.
WithUrl(as) == { i \in 1..Len(as) : as[i].url # None /\ as[i].url # "" }

\* A _save_images execution ended by returning.
SaveImagesReturned ==
    script = TTI /\ pc = "done" /\ Count("DialBucketClient", "call") = 1

\* C10: a _save_images execution in which nothing fails issues one get_file
\* call and opens one output file per attachment that has a non-empty url,
\* and at no time a get_file call for an absent or empty url.
C10_OneDownloadPerUrl ==
    /\ SaveImagesReturned =>
        /\ Count("get_file", "call") = Cardinality(WithUrl(attachments))
        /\ Count("open", "call") = Cardinality(WithUrl(attachments))
        /\ Count("write", "call") = Cardinality(WithUrl(attachments))
    /\ script = TTI =>
        \A i \in 1..Len(log) :
            IsCall(log[i], "get_file") =>
                log[i].args[1] # None /\ log[i].args[1] # ""

\* C10 witness: a list of two attachments, one without url, was processed
\* with one download.
C10_Witness ==
    /\ SaveImagesReturned
    /\ Len(attachments) = 2
    /\ Cardinality(WithUrl(attachments)) = 1
    /\ Count("get_file", "call") = 1


\* The url of the latest get_file call.
LastRequestedUrl ==
    Events("get_file", "call")[Count("get_file", "call")].args[1]

\* C11: every write of _save_images follows the open that follows the
\* return of a get_file call, and carries exactly the bytes that call
\* returned; the call was made for the url of the attachment being
\* processed.
C11_WritesWhatItDownloaded ==
    script = TTI =>
        /\ \A i \in 1..Len(log) :
            IsCall(log[i], "write") =>
                /\ i >= 4
                /\ IsCall(log[i - 1], "open")
                /\ log[i - 2].op = "get_file" /\ log[i - 2].phase = "ret"
                /\ IsCall(log[i - 3], "get_file")
                /\ log[i].args = << log[i - 2].val >>
        /\ pc \in {"s_await_get", "s_open", "s_write"} =>
                LastRequestedUrl = attachments[idx + 1].url

\* C11 witness: two attachments were downloaded with different bytes and
\* both were written.
C11_Witness ==
    /\ script = TTI /\ Count("write", "call") = 2
    /\ Events("write", "call")[1].args # Events("write", "call")[2].args
    /\ Events("get_file", "call")[1].args # Events("get_file", "call")[2].args

\* C12: the file for the attachment at 0-based position idx of the input
\* list is named generated_image_<timestamp>_<idx+1>.png, the timestamp
\* being the clock's whole seconds when the attachment is processed; skipped
\* attachments count, and the first attachment's file ends in _1.png.
C12_FileNames ==
    (script = TTI /\ pc \in {"s_open", "s_write"}) =>
        /\ out_name = << "generated_image_", now \div TicksPerSecond, "_",
                         idx + 1, ".png" >>
        /\ LastRequestedUrl = attachments[idx + 1].url
        /\ idx = 0 => out_name[4] = 1
        /\ pc = "s_write" => log[Len(log)].args = << out_name, "wb" >>

\* C12 witness: the first attachment had no url; the second one's file is
\* opened under suffix 2, in second 1 of the clock.
C12_Witness ==
    /\ script = TTI /\ pc = "s_write" /\ idx = 1
    /\ attachments[1].url = None
    /\ out_name = << "generated_image_", 1, "_", 2, ".png" >>


\* The get_completion calls issued so far, in order.
CompletionCalls == Events("get_completion", "call")

\* C13: task_openai_itt.start constructs DialModelClient once, for
\* deployment gpt-4o, and calls get_completion twice; each conversation holds
\* exactly one message, and the second holds neither the first call's
\* message nor the first call's response.
C13_TwoIndependentExchanges ==
    script = OPENAI_ITT =>
        /\ Count("DialModelClient", "call") <= 1
        /\ pc # "o_client" =>
             /\ Count("DialModelClient", "call") = 1
             /\ Events("DialModelClient", "call")[1].kwargs.deployment_name
                  = "gpt-4o"
        /\ Len(CompletionCalls) <= 2
        /\ pc = "done" => Len(CompletionCalls) = 2
        /\ \A i \in 1..Len(CompletionCalls) :
             Len(CompletionCalls[i].kwargs.messages) = 1
        /\ Len(CompletionCalls) = 2 =>
             \A k \in 1..Len(CompletionCalls[2].kwargs.messages) :
                LET m == CompletionCalls[2].kwargs.messages[k]
                IN  /\ m.content[1]
                         # CompletionCalls[1].kwargs.messages[1].content[1]
                    /\ DOMAIN m = {"role", "content"}
                    /\ m.role = "user"

\* C13 witness: both exchanges are over.
C13_Witness ==
    /\ script = OPENAI_ITT /\ pc = "done"
    /\ Len(CompletionCalls) = 2
    /\ Count("get_completion", "ret") = 2

\* C14: each message task_openai_itt.start sends has role USER and exactly
\* two content parts, a text part then an image part whose url starts with
\* 'data:image/png;base64,', in both calls and for every file content.
C14_MessageShape ==
    script = OPENAI_ITT =>
        \A i \in 1..Len(CompletionCalls) :
            \A k \in 1..Len(CompletionCalls[i].kwargs.messages) :
                LET m == CompletionCalls[i].kwargs.messages[k]
                IN  /\ m.role = "user"
                    /\ Len(m.content) = 2
                    /\ m.content[1].type = "text"
                    /\ m.content[2].type = "image_url"
                    /\ Len(m.content[2].image_url.url) >= 1
                    /\ m.content[2].image_url.url[1] = "data:image/png;base64,"

\* C14 witness: the second call was issued for a four-byte image.
C14_Witness ==
    /\ script = OPENAI_ITT /\ pc = "o_await2"
    /\ Len(image_bytes) = 4

\* Base64 decoding, the inverse direction: four characters become up to
\* three bytes.
B64Value(c) == CHOOSE v \in 0..63 : B64Alphabet[v + 1] = c
RECURSIVE b64decode(_)
b64decode(cs) ==
    IF Len(cs) < 4 THEN <<>>
    ELSE LET a == B64Value(cs[1])
             b == B64Value(cs[2])
         IN  IF cs[3] = "="
             THEN << a * 4 + b \div 16 >>
             ELSE IF cs[4] = "="
             THEN << a * 4 + b \div 16,
                     (b % 16) * 16 + B64Value(cs[3]) \div 4 >>
             ELSE << a * 4 + b \div 16,
                     (b % 16) * 16 + B64Value(cs[3]) \div 4,
                     (B64Value(cs[3]) % 4) * 64 + B64Value(cs[4]) >>
                  \o b64decode(SubSeq(cs, 5, Len(cs)))

\* The url of the image part of the i-th get_completion call.
SentImageUrl(i) ==
    CompletionCalls[i].kwargs.messages[1].content[2].image_url.url

\* C15: what follows the prefix in the image url base64-decodes to exactly
\* the bytes read from the file (a multiple of four characters), the file is
\* opened and read once, and both calls carry the same url.
C15_Base64RoundTrip ==
    script = OPENAI_ITT =>
        /\ Count("open", "call") <= 1
        /\ Count("read", "ret") <= 1
        /\ \A i \in 1..Len(CompletionCalls) :
             /\ Count("read", "ret") = 1
             /\ Len(Tail(SentImageUrl(i))) % 4 = 0
             /\ b64decode(Tail(SentImageUrl(i))) = Events("read", "ret")[1].val
        /\ Len(CompletionCalls) = 2 => SentImageUrl(1) = SentImageUrl(2)

\* C15 witness: a two-byte image (one padded group) went out in both calls.
C15_Witness ==
    /\ script = OPENAI_ITT /\ Len(CompletionCalls) = 2
    /\ image_bytes = << 137, 80 >>
    /\ SentImageUrl(2) = << "data:image/png;base64,", "i", "V", "A", "=" >>


\* A run of start() of task_dial_itt or task_tti.
DialStartRun == script \in {DIAL_ITT, TTI} /\ entry = "start"

\* What C16 expects of a run of start(): the deployment and the prompt.
ExpectedDeployment == IF script = DIAL_ITT THEN "gpt-4o" ELSE "dall-e-3"
ExpectedPrompt ==
    IF script = DIAL_ITT THEN "What do you see on this picture?"
    ELSE "Sunny day on Bali"

\* The upload of task_dial_itt.start raised: get_completion is never reached.
UploadRaised ==
    script = DIAL_ITT /\ pc = "raised" /\ exc \in {"open", "read", "put_file"}

\* One client for the expected deployment, and every get_completion call
\* carries one USER message whose content is the prompt string.
OneClientOneMessage ==
    /\ Count("DialModelClient", "call") <= 1
    /\ pc \notin {"d_client", "t_client"} =>
         /\ Count("DialModelClient", "call") = 1
         /\ Events("DialModelClient", "call")[1].kwargs.deployment_name
              = ExpectedDeployment
    /\ \A i \in 1..Len(CompletionCalls) :
         LET ms == CompletionCalls[i].kwargs.messages
         IN  /\ Len(ms) = 1
             /\ ms[1].role = "user"
             /\ ms[1].content = ExpectedPrompt

\* C16 as stated: every ended run of start() of task_dial_itt and task_tti
\* constructed one DialModelClient and called get_completion exactly once,
\* with one USER message carrying the prompt string.
C16_Original ==
    (DialStartRun /\ pc \in {"done", "raised"}) =>
        /\ OneClientOneMessage
        /\ Len(CompletionCalls) = 1

\* C16 amended: a run of start() constructs one DialModelClient for its
\* deployment and calls get_completion at most once, with one USER message
\* carrying the prompt string; an ended run called it exactly once unless,
\* in task_dial_itt, the upload raised first, and then it never called it.
C16_OneCompletionUnlessUploadRaised ==
    DialStartRun =>
        /\ OneClientOneMessage
        /\ Len(CompletionCalls) <= 1
        /\ pc \in {"done", "raised"} =>
             Len(CompletionCalls) = (IF UploadRaised THEN 0 ELSE 1)

\* C16 witness: a run of task_dial_itt.start ended by a failed upload, the
\* client constructed and get_completion never called.
C16_Witness ==
    /\ DialStartRun /\ UploadRaised /\ exc = "put_file"
    /\ Count("DialModelClient", "call") = 1
    /\ Len(CompletionCalls) = 0


\* The events that must fall inside the session: every event of a store call
\* and the construction of the Attachment _put_image returns.
InSessionOps == {"put_file", "get_file", "Attachment"}

\* C17: in _put_image and _save_images every put_file and get_file call, and
\* the construction of the returned Attachment, happens after the session's
\* acquisition (__aenter__) and before its release (__aexit__), with the
\* session open; no store call is outstanding once the session is released.
C17_StoreCallsInsideSession ==
    /\ \A i \in 1..Len(log) :
         log[i].op \in InSessionOps =>
            /\ log[i].sess = "open"
            /\ \E j \in 1..(i - 1) : IsCall(log[j], "__aenter__")
            /\ \A k \in 1..i : ~IsCall(log[k], "__aexit__")
    /\ pc \in {"p_await_put", "s_await_get"} => session = "open"
    /\ session = "closed" =>
         /\ Count("__aexit__", "call") = 1
         /\ Count("put_file", "call")
              = Count("put_file", "ret") + Count("put_file", "raise")
         /\ Count("get_file", "call")
              = Count("get_file", "ret") + Count("get_file", "raise")

\* C17 witness: _put_image returned its Attachment and _save_images
\* downloaded, each inside a session since released.
C17_Witness ==
    /\ session = "closed"
    /\ \/ Count("put_file", "ret") = 1 /\ Count("Attachment", "call") = 1
       \/ Count("get_file", "ret") = 2


\* The DialBucketClient constructions of the current invocation.
BucketClients == Events("DialBucketClient", "call")

\* C18: an invocation of _put_image or of _save_images constructs exactly
\* one DialBucketClient, with api_key and base_url, before any of its store
\* calls, whatever the number of attachments and of urls among them.
C18_OneBucketClient ==
    /\ Len(BucketClients) <= 1
    /\ \A i \in 1..Len(BucketClients) :
         /\ BucketClients[i].args = <<>>
         /\ DOMAIN BucketClients[i].kwargs = {"api_key", "base_url"}
         /\ BucketClients[i].kwargs.api_key = "API_KEY"
         /\ BucketClients[i].kwargs.base_url = "DIAL_URL"
    /\ \A i \in 1..Len(log) :
         log[i].op \in {"put_file", "get_file"} =>
            \E j \in 1..(i - 1) : IsCall(log[j], "DialBucketClient")
    /\ pc \in ScopePcs => Len(BucketClients) = 1
    /\ (entry \in {"_put_image", "_save_images"} /\ pc \in {"done", "raised"})
         => Len(BucketClients) = 1

\* C18 witness: _save_images returned over a non-empty list with no url in
\* it, one client constructed and no store call made; and over two urls,
\* one client for both downloads.
C18_Witness ==
    /\ entry = "_save_images" /\ pc = "done"
    /\ Len(attachments) = 2
    /\ Len(BucketClients) = 1
    /\ \/ (\A i \in 1..Len(attachments) : ~HasUrl(attachments[i]))
           /\ Count("get_file", "call") = 0
       \/ Count("get_file", "ret") = 2


\* The Message invariant for a content part: a text part has a non-empty
\* text, an image part a non-empty url (a url is the sequence of its pieces).
ValidPart(p) ==
    IF p.type = "text" THEN p.text # ""
    ELSE /\ p.type = "image_url"
         /\ Len(p.image_url.url) >= 1
         /\ \A k \in 1..Len(p.image_url.url) : p.image_url.url[k] # ""

\* C19: every message the scripts construct and send satisfies the Message
\* invariant: in task_dial_itt and task_tti the content is the plain prompt
\* string; in task_openai_itt it is a non-empty sequence of parts, each with
\* a non-empty text or url, also when the image file read was empty.
C19_MessagesWellFormed ==
    \A i \in 1..Len(CompletionCalls) :
        \A k \in 1..Len(CompletionCalls[i].kwargs.messages) :
            LET m == CompletionCalls[i].kwargs.messages[k]
            IN  IF script = OPENAI_ITT
                THEN /\ Len(m.content) >= 1
                     /\ \A j \in 1..Len(m.content) : ValidPart(m.content[j])
                ELSE /\ m.content \in {DialIttPrompt, TtiPrompt}
                     /\ m.content # ""

\* C19 witness: task_openai_itt sent both messages for an empty image file.
C19_Witness ==
    /\ script = OPENAI_ITT /\ Len(CompletionCalls) = 2
    /\ Count("read", "ret") = 1
    /\ Events("read", "ret")[1].val = <<>>
    /\ SentImageUrl(2) = << "data:image/png;base64," >>


\* The Attachment an upload confirmed at log position i returns: title the
\* name, url the store's, type the MIME string.
UploadedAttachment(i) ==
    Attachment(log[i - 1].kwargs.name, DictGet(log[i].val, "url"),
               log[i - 1].kwargs.mime_type)

\* The confirmed uploads before position i whose Attachment has url u.
UploadsBefore(i, u) ==
    {j \in 2..(i - 1) : /\ log[j].op = "put_file" /\ log[j].phase = "ret"
                        /\ UploadedAttachment(j).url = u}

UploadCallOf(n) ==
    CHOOSE i \in 1..Len(log) :
        IsCall(log[i], "put_file") /\ log[i].kwargs.name = n
ReturnedNames == {n \in ConcNames : Returned(n)}
ConcAttachment(n) ==
    LET r == CHOOSE i \in 1..Len(log) :
                /\ log[i].op = "put_file" /\ log[i].phase = "ret"
                /\ log[i].val.url = StoreUrl(n)
    IN  Attachment(n, DictGet(log[r].val, "url"),
                   log[UploadCallOf(n)].kwargs.mime_type)

\* What the store holds at u: the body of the latest PUT to u.
BytesAt(u) ==
    LET puts == {i \in 1..Len(log) : log[i].op = "PUT" /\ log[i].args[1] = u}
    IN  log[MaxIn(puts)].args[2]

SaveImagesFailed ==
    script = TTI /\ pc = "raised" /\ exc \in {"get_file", "open", "write"}

\* The positions up to k of the input list that carry a url.
WithUrlUpTo(k) == {i \in WithUrl(attachments) : i <= k}

\* C22: when get_file, open or write fails for the attachment at position
\* idx + 1, _save_images ends there: the exception is the last thing that
\* happens before the session is released, the output file is not left open,
\* get_file was called for the url-bearing positions up to the failing one
\* and for none after it, and the files of the earlier url-bearing
\* positions, and only those, have been written.
C22_PartialFailureStops ==
    /\ script = TTI =>
         \A i \in 1..Len(log) :
            (log[i].phase = "raise" /\ log[i].op \in {"get_file", "open", "write"})
                => /\ i = Len(log) - 1
                   /\ IsCall(log[Len(log)], "__aexit__")
                   /\ pc = "raised" /\ exc = log[i].op
    /\ SaveImagesFailed =>
         /\ session = "closed"
         /\ file # "open"
         /\ idx < Len(attachments)
         /\ idx + 1 \in WithUrl(attachments)
         /\ Count("get_file", "call") = Cardinality(WithUrlUpTo(idx + 1))
         /\ Count("write", "call") = Cardinality(WithUrlUpTo(idx))
         /\ Count("open", "call")
              = Cardinality(WithUrlUpTo(idx)) + (IF exc = "write" THEN 1 ELSE 0)
         /\ Count("get_file", "ret")
              = Cardinality(WithUrlUpTo(idx)) + (IF exc = "get_file" THEN 0 ELSE 1)

\* C22 witness: the first of two images was written, then the download of
\* the second failed.
C22_Witness ==
    /\ SaveImagesFailed /\ exc = "get_file"
    /\ Len(attachments) = 2 /\ idx = 1
    /\ Count("write", "call") = 1
    /\ Count("get_file", "call") = 2
    /\ session = "closed"


\* The output files opened so far by the current _save_images invocation.
OutputOpens == Events("open", "call")

\* C23: within one _save_images invocation the names of the files opened
\* for writing are pairwise different, and the name about to be opened is
\* none of those already used, whatever the clock showed at each download
\* (the same second included).
C23_NoOverwrite ==
    script = TTI =>
        /\ \A i, j \in 1..Len(OutputOpens) :
             i # j => OutputOpens[i].args[1] # OutputOpens[j].args[1]
        /\ pc = "s_open" =>
             \A i \in 1..Len(OutputOpens) : OutputOpens[i].args[1] # out_name

\* C23 witness: two images were saved under timestamps of the same second.
C23_Witness ==
    /\ script = TTI /\ Count("write", "call") = 2
    /\ Len(OutputOpens) = 2
    /\ OutputOpens[1].args[1][2] = OutputOpens[2].args[1][2]
    /\ OutputOpens[1].args[1] # OutputOpens[2].args[1]


\* The non-empty urls of the input list, in list order.
UrlsInOrder ==
    LET sel == SelectSeq(attachments, LAMBDA a : a.url # None /\ a.url # "")
    IN  [i \in 1..Len(sel) |-> sel[i].url]

\* The urls passed to get_file so far, in call order.
RequestedUrls ==
    [i \in 1..Count("get_file", "call") |->
        Events("get_file", "call")[i].args[1]]

\* get_file calls neither returned nor failed yet.
GetFileInFlight ==
    Count("get_file", "call")
        - Count("get_file", "ret") - Count("get_file", "raise")

\* C24: _save_images downloads one at a time in list order: at most one
\* get_file call is in flight, and only while the loop awaits it; no output
\* file is open while a download is in flight; a get_file call after the
\* first directly follows the write of the previous file; and the urls
\* requested are the leading part of the list's non-empty urls, all of them
\* once the function has returned.
C24_SequentialInOrder ==
    script = TTI =>
        /\ GetFileInFlight \in {0, 1}
        /\ GetFileInFlight = 1 <=> pc = "s_await_get"
        /\ pc = "s_await_get" => file # "open"
        /\ \A i \in 1..Len(log) :
             (IsCall(log[i], "get_file")
                /\ \E j \in 1..(i - 1) : IsCall(log[j], "get_file"))
             => IsCall(log[i - 1], "write")
        /\ Len(RequestedUrls) <= Len(UrlsInOrder)
        /\ RequestedUrls = SubSeq(UrlsInOrder, 1, Len(RequestedUrls))
        /\ pc = "done" => RequestedUrls = UrlsInOrder

\* C24 witness: two different urls were downloaded one after the other, the
\* second requested right after the first file was written.
C24_Witness ==
    /\ script = TTI /\ pc = "done"
    /\ Len(RequestedUrls) = 2
    /\ RequestedUrls[1] # RequestedUrls[2]
    /\ RequestedUrls = UrlsInOrder
    /\ file # "open"


\* C25: _save_images ends for every input list, given that every get_file
\* call eventually returns or raises: it eventually returns or raises; the
\* loop position only moves forward, one attachment at a time, so each
\* attachment is visited once; a return comes after the last attachment
\* with nothing having failed, and a raise is the first and only failure.
C25_SaveImagesTerminates ==
    /\ <>(pc \in {"done", "raised"})
    /\ [][idx' = idx + 1]_idx
    /\ [](idx <= Len(attachments))
    /\ [](pc = "done" =>
            /\ idx = Len(attachments)
            /\ \A i \in 1..Len(log) : log[i].phase # "raise")
    /\ [](pc = "raised" =>
            /\ idx < Len(attachments)
            /\ Cardinality({i \in 1..Len(log) : log[i].phase = "raise"}) = 1)

\* C25 witness: a two-element list, one attachment skipped and one saved,
\* and the function returned.
C25_Witness ==
    /\ entry = "_save_images" /\ pc = "done"
    /\ Len(attachments) = 2 /\ idx = 2
    /\ Cardinality(WithUrl(attachments)) = 1
    /\ Count("write", "call") = 1

====
